---- MODULE Spec2Model ----
(***************************************************************************)
(* Multi-modal moderation pipeline of the Dip bot:                         *)
(*   Capture (src/src/bot.py, handle_message_monitoring)                   *)
(*   Transcription Consumer (src/transcriber-src/main.py)                  *)
(*   Aggregator (src/prepare-info-src/main.py, InfoPreparator)             *)
(*   Rule Evaluator (src/llm-src/main.py, LLMProcessor)                    *)
(*   Decision Dispatcher (src/decider-src/main.py, RuleDecider)            *)
(*   Moderator response (src/src/bot.py, handle_violation_action)          *)
(* Each stage has its own specification over the shared variables:         *)
(*   Spec      Capture + Transcription Consumer + Aggregator               *)
(*   SpecEval  Rule Evaluator                                              *)
(*   SpecDisp  Decision Dispatcher                                         *)
(*   SpecDec   moderator response on a violation's action control         *)
(***************************************************************************)
EXTENDS Integers, Sequences, FiniteSets, TLC

\* ------------------------------------------------------------------ bounds
MaxRedeliver == 2

MsgIds == {1}
ChatIds == {1, 2}
Texts == {"", "hello"}

\* Python's None
None == [none |-> TRUE]

VARIABLES
    \* --- Capture / broker
    captured,               \* message_id -> media_info built by Capture
    q_images,               \* multimedia.images: signals awaiting delivery
    q_audio,                \* multimedia.audio
    q_text,                 \* multimedia.text
    q_transcribed,          \* prompt.transcribed-audio
    delivered,              \* <<kind, signal>> already handed to the Aggregator
    redelivered,            \* number of broker redeliveries so far
    \* --- Aggregator (InfoPreparator)
    message_data,           \* self.message_data
    pending_confirmations,  \* self.pending_confirmations
    publishing,             \* message_id -> handlers suspended at "await publish"
    ready,                  \* prompt.ready_info: ReadyEvents published, in order
    merged                  \* <<message_id, kind>> -> number of merges so far

VARIABLES
    \* --- Signal Store / Transcription Consumer
    message_audios,         \* table message_audios: ids of the rows
    tr_log                  \* per inbound audio signal handled: the outcome

VARIABLES
    \* --- relational store
    rules,                  \* table rules: id -> row
    \* --- Rule Evaluator (LLMProcessor.process_message)
    ev_pc,                  \* "idle" | "batches" | "done" | "failed"
    ev_data,                \* the ReadyEvent being evaluated
    ev_batches,             \* rule_batches not yet processed
    prompts,                \* prompts sent to the inference endpoint, in order
    answers,                \* per processed batch: the batch, the model's answer
                            \* and the violations published for it
    rule_match,             \* message-rule-match: ViolationEvents published, in order
    ev_settled              \* what message.process() told the broker about the
                            \* ReadyEvent: "none" while the handler runs

aggVars == <<captured, q_images, q_audio, q_text, q_transcribed, delivered,
             redelivered, message_data, pending_confirmations, publishing,
             ready, merged>>

VARIABLES
    \* --- relational store
    chat_moderators,        \* table chat_moderators: rows
    policies,               \* table rule_violation_notification_policies:
                            \* rows <<moderator_id, policy>>
    toggles,                \* number of policy toggles handled
    last_toggle,            \* the last toggle handled: whose, which category,
                            \* the statuses read before it
    \* --- Decision Dispatcher (RuleDecider.process_rule_match)
    dp_pc,                  \* "idle" | "loop" | "done"
    dp_data,                \* the ViolationEvent being dispatched
    dp_rule,                \* the row get_rule_info returned
    dp_queue,               \* moderators the loop has not reached yet
    dp_checked,             \* per moderator reached: the policy check made
    effects,                \* calls made on the chat platform, in order
    dp_acked,               \* message.process() left normally: event acknowledged
    dp_log                  \* earlier dispatches: the event, the calls made

VARIABLES
    \* --- moderator response (TelegramBot.handle_violation_action)
    decisions,              \* table rule_violation_decision, in insertion order
    control,                \* per moderator and violation: the keyboard of
                            \* the message last presented for it
    banned,                 \* <<chat, user>> pairs the platform restricts
    taps,                   \* number of taps handled
    last_tap,               \* the last tap handled and what it presented
    tapped                  \* per violation: the action of the last tap handled

evalVars == <<ev_pc, ev_data, ev_batches, prompts, answers, rule_match, ev_settled>>

decVars == <<decisions, control, banned, taps, last_tap, tapped>>

dispVars == <<chat_moderators, policies, toggles, last_toggle, dp_pc, dp_data, dp_rule, dp_queue,
              dp_checked, effects, dp_acked, dp_log>>

trVars == <<message_audios, tr_log>>

vars == <<aggVars, trVars, rules, evalVars, dispVars, decVars>>

\* what the actions of one stage leave alone
notCap == <<rules, evalVars, dispVars, decVars>>
notAgg == <<trVars, rules, evalVars, dispVars, decVars>>
notEval == <<aggVars, trVars, rules, dispVars, decVars>>
notDisp == <<aggVars, trVars, rules, evalVars, decVars>>
notDec == <<aggVars, trVars, rules, evalVars, dispVars>>

\* ------------------------------------------------------------ Capture
ImageUuids(m, hv, hp) ==
    (IF hv THEN << <<m, "frame">> >> ELSE << >>) \o
    (IF hp THEN << <<m, "photo">> >> ELSE << >>)

AudioUuids(m, hv, ha) ==
    (IF hv THEN << <<m, "track">> >> ELSE << >>) \o
    (IF ha THEN << <<m, "audio">> >> ELSE << >>)

AuthorOf(m) == 100 + m

MediaInfo(m, c, t, hv, hp, ha) ==
    [message_id |-> m, chat_id |-> c, user_id |-> AuthorOf(m), text |-> t,
     has_video |-> hv, has_photo |-> hp, has_audio |-> ha,
     image_uuids |-> ImageUuids(m, hv, hp),
     audio_uuids |-> AudioUuids(m, hv, ha)]

\* a slip: the Text signal is published whether or not there is text
Capture_mut(m, c, t, hv, hp, ha) ==
    /\ m \notin DOMAIN captured
    /\ LET info == MediaInfo(m, c, t, hv, hp, ha) IN
         /\ captured' = (m :> info) @@ captured
         /\ q_images' = IF info.image_uuids /= << >> THEN q_images \cup {info} ELSE q_images
         /\ q_audio' = IF info.audio_uuids /= << >> THEN q_audio \cup {info} ELSE q_audio
         /\ q_text' = q_text \cup {info}
         /\ message_audios' = message_audios \cup
                                  {info.audio_uuids[i] : i \in DOMAIN info.audio_uuids}
    /\ UNCHANGED <<q_transcribed, delivered, redelivered, message_data,
                   pending_confirmations, publishing, ready, merged, tr_log>>
    /\ UNCHANGED notCap

\* handle_message_monitoring: one signal per non-empty modality
Capture(m, c, t, hv, hp, ha) ==
    /\ m \notin DOMAIN captured
    /\ LET info == MediaInfo(m, c, t, hv, hp, ha) IN
         /\ captured' = (m :> info) @@ captured
         /\ q_images' = IF info.image_uuids /= << >> THEN q_images \cup {info} ELSE q_images
         /\ q_audio' = IF info.audio_uuids /= << >> THEN q_audio \cup {info} ELSE q_audio
         /\ q_text' = IF info.text /= "" THEN q_text \cup {info} ELSE q_text
         /\ message_audios' = message_audios \cup
                                  {info.audio_uuids[i] : i \in DOMAIN info.audio_uuids}
    /\ UNCHANGED <<q_transcribed, delivered, redelivered, message_data,
                   pending_confirmations, publishing, ready, merged, tr_log>>
    /\ UNCHANGED notCap

\* clear_pg_data.py: the database is dropped, and every stored asset with it
drop_db_and_user ==
    /\ message_audios /= {}
    /\ message_audios' = {}
    /\ UNCHANGED <<aggVars, tr_log>>
    /\ UNCHANGED notCap

\* ------------------------------------------------ Transcription Consumer
TranscribedText == "Transcribed text will be here"

\* a slip: the flags take their defaults, not the inbound signal's values
TranscribedMessage_flags(data) ==
    [message_id |-> data.message_id, chat_id |-> data.chat_id,
     transcribed_text |-> TranscribedText,
     has_video |-> FALSE, has_photo |-> FALSE, has_audio |-> FALSE,
     image_uuids |-> data.image_uuids, audio_uuids |-> data.audio_uuids]

\* a slip: the image ids of the inbound signal are not carried over
TranscribedMessage_mut(data) ==
    [message_id |-> data.message_id, chat_id |-> data.chat_id,
     transcribed_text |-> TranscribedText,
     has_video |-> data.has_video, has_photo |-> data.has_photo,
     has_audio |-> data.has_audio,
     image_uuids |-> << >>, audio_uuids |-> data.audio_uuids]

TranscribedMessage(data) ==
    [message_id |-> data.message_id, chat_id |-> data.chat_id,
     transcribed_text |-> TranscribedText,
     has_video |-> data.has_video, has_photo |-> data.has_photo,
     has_audio |-> data.has_audio,
     image_uuids |-> data.image_uuids, audio_uuids |-> data.audio_uuids]

\* get_audio_data: the ValueError raised when the row is absent
AudioNotFound == "ValueError: Audio not found"

\* a slip: a row is returned whether or not the table has one
get_audio_data_mut(audio_uuid) ==
    IF audio_uuid \in message_audios THEN "audio_data" ELSE "audio_data"

get_audio_data(audio_uuid) ==
    IF audio_uuid \in message_audios THEN "audio_data" ELSE AudioNotFound

\* async with message.process(): the block left normally acknowledges the
\* delivery, the block left by an exception rejects it without requeue
MessageProcess(raised) == IF raised THEN "reject" ELSE "ack"

\* the exception process_message ends with, "" when it ends normally
TranscribeError(data) ==
    IF data.audio_uuids = << >> THEN "IndexError"
    ELSE IF get_audio_data(Head(data.audio_uuids)) = AudioNotFound THEN AudioNotFound
    ELSE ""

\* process_message
Transcribe(sig) ==
    /\ sig \in q_audio
    /\ q_audio' = q_audio \ {sig}
    /\ LET error == TranscribeError(sig)
           out == IF error = "" THEN {TranscribedMessage(sig)} ELSE {}
       IN  /\ q_transcribed' = q_transcribed \cup out
           /\ tr_log' = Append(tr_log, [data |-> sig, error |-> error,
                                        stored |-> {u \in message_audios :
                                                      \E j \in DOMAIN sig.audio_uuids :
                                                          sig.audio_uuids[j] = u},
                                        published |-> out,
                                        settled |-> MessageProcess(error /= "")])
    /\ UNCHANGED <<captured, q_images, q_text, delivered, redelivered,
                   message_data, pending_confirmations, publishing, ready, merged,
                   message_audios>>
    /\ UNCHANGED notCap

\* ------------------------------------------------------------ Aggregator
Kinds == {"images", "transcribed_audio", "text"}

DefaultData ==
    [images |-> None, transcribed_audio |-> None, text |-> None,
     message_id |-> None,
     has_video |-> FALSE, has_photo |-> FALSE, has_audio |-> FALSE,
     image_uuids |-> << >>, audio_uuids |-> << >>]

\* the key None, under which data.get('message_id') files a signal that has
\* no message_id
NoId == 0

\* data.get('message_id')
MessageIdOf(data) == IF "message_id" \in DOMAIN data THEN data.message_id ELSE NoId

\* defaultdict lookup
DataOf(md, m) == IF m \in DOMAIN md THEN md[m] ELSE DefaultData
PendingOf(pc, m) == IF m \in DOMAIN pc THEN pc[m] ELSE {}

\* a slip: the asset ids are appended to the lists already stored
UpdateData_mut(old, kind, data) ==
    [old EXCEPT ![kind] = data,
                !.message_id = MessageIdOf(data),
                !.has_video = data.has_video,
                !.has_photo = data.has_photo,
                !.has_audio = data.has_audio,
                !.image_uuids = @ \o data.image_uuids,
                !.audio_uuids = @ \o data.audio_uuids]

\* self.message_data[message_id].update({...})
UpdateData(old, kind, data) ==
    [old EXCEPT ![kind] = data,
                !.message_id = MessageIdOf(data),
                !.has_video = data.has_video,
                !.has_photo = data.has_photo,
                !.has_audio = data.has_audio,
                !.image_uuids = data.image_uuids,
                !.audio_uuids = data.audio_uuids]

\* truth value of a stored event (None and {} are false)
Truthy(ev) == ev /= None /\ DOMAIN ev /= {}

\* a slip: a video requires its frame only
RequiredData_mut(data) ==
    (IF data.has_video THEN {"images"} ELSE {}) \cup
    (IF data.has_photo THEN {"images"} ELSE {}) \cup
    (IF data.has_audio THEN {"transcribed_audio"} ELSE {}) \cup
    (IF Truthy(data.text) THEN {"text"} ELSE {})

RequiredData(data) ==
    (IF data.has_video THEN {"images", "transcribed_audio"} ELSE {}) \cup
    (IF data.has_photo THEN {"images"} ELSE {}) \cup
    (IF data.has_audio THEN {"transcribed_audio"} ELSE {}) \cup
    (IF Truthy(data.text) THEN {"text"} ELSE {})

ResultMessage(m, data, first) ==
    [message_id |-> m,
     chat_id |-> data[first].chat_id,
     has_video |-> data.has_video,
     has_photo |-> data.has_photo,
     has_audio |-> data.has_audio,
     image_uuids |-> data.image_uuids,
     audio_uuids |-> data.audio_uuids,
     transcribed_text |-> IF Truthy(data.transcribed_audio)
                          THEN data.transcribed_audio.transcribed_text ELSE None,
     text |-> IF Truthy(data.text) THEN data.text.text ELSE None]

\* a proper subset in the place of issubset
AllCollected_mut(data, pend) ==
    RequiredData(data) \subseteq pend /\ RequiredData(data) /= pend

\* check_and_send_info: required_data.issubset(pending)
AllCollected(data, pend) == RequiredData(data) \subseteq pend

\* a slip: chat_id is read from any of the three event slots
FirstChoices_mut(data) == IF RequiredData(data) = {} THEN {} ELSE Kinds

\* next(iter(required_data)): any element of the set (iteration order of a
\* set of strings is not fixed); none when the set is empty (the coroutine
\* then fails before it publishes)
FirstChoices(data) == RequiredData(data)

\* process_*_message up to the publish of check_and_send_info
Ingest(kind, sig) ==
    LET m == MessageIdOf(sig)
        data == UpdateData(DataOf(message_data, m), kind, sig)
        pend == PendingOf(pending_confirmations, m) \cup {kind}
    IN  /\ message_data' = (m :> data) @@ message_data
        /\ pending_confirmations' = (m :> pend) @@ pending_confirmations
        /\ merged' = [merged EXCEPT ![<<m, kind>>] = @ + 1]
        /\ delivered' = delivered \cup {<<kind, sig>>}
        /\ IF AllCollected(data, pend) /\ FirstChoices(data) /= {}
           THEN \E first \in FirstChoices(data) :
                   IF data[first] /= None
                   THEN /\ ready' = Append(ready, ResultMessage(m, data, first))
                        /\ publishing' = [publishing EXCEPT ![m] = @ + 1]
                   ELSE UNCHANGED <<ready, publishing>>
           ELSE UNCHANGED <<ready, publishing>>

process_images_message(sig) ==
    /\ sig \in q_images
    /\ q_images' = q_images \ {sig}
    /\ Ingest("images", sig)
    /\ UNCHANGED <<captured, q_audio, q_text, q_transcribed, redelivered>>
    /\ UNCHANGED notAgg

process_transcribed_audio_message(sig) ==
    /\ sig \in q_transcribed
    /\ q_transcribed' = q_transcribed \ {sig}
    /\ Ingest("transcribed_audio", sig)
    /\ UNCHANGED <<captured, q_images, q_audio, q_text, redelivered>>
    /\ UNCHANGED notAgg

process_text_message(sig) ==
    /\ sig \in q_text
    /\ q_text' = q_text \ {sig}
    /\ Ingest("text", sig)
    /\ UNCHANGED <<captured, q_images, q_audio, q_transcribed, redelivered>>
    /\ UNCHANGED notAgg

Without(f, m) == [x \in DOMAIN f \ {m} |-> f[x]]

\* check_and_send_info after the publish returned: the two deletes
FinishPublish(m) ==
    /\ publishing[m] > 0
    /\ publishing' = [publishing EXCEPT ![m] = @ - 1]
    /\ message_data' = Without(message_data, m)
    /\ pending_confirmations' = Without(pending_confirmations, m)
    /\ UNCHANGED <<captured, q_images, q_audio, q_text, q_transcribed,
                   delivered, redelivered, ready, merged>>
    /\ UNCHANGED notAgg

\* the Aggregator process stops and is started again: what it held in
\* memory is gone, the queues are consumed with no_ack=True
Restart ==
    /\ message_data /= << >>
    /\ message_data' = << >>
    /\ pending_confirmations' = << >>
    /\ publishing' = [m \in DOMAIN publishing |-> 0]
    /\ UNCHANGED <<captured, q_images, q_audio, q_text, q_transcribed,
                   delivered, redelivered, ready, merged>>
    /\ UNCHANGED notAgg

\* the broker hands an already delivered signal to the Aggregator again
Redeliver(kind, sig) ==
    /\ <<kind, sig>> \in delivered
    /\ redelivered < MaxRedeliver
    /\ redelivered' = redelivered + 1
    /\ q_images' = IF kind = "images" THEN q_images \cup {sig} ELSE q_images
    /\ q_transcribed' = IF kind = "transcribed_audio"
                        THEN q_transcribed \cup {sig} ELSE q_transcribed
    /\ q_text' = IF kind = "text" THEN q_text \cup {sig} ELSE q_text
    /\ UNCHANGED <<captured, q_audio, delivered, message_data,
                   pending_confirmations, publishing, ready, merged>>
    /\ UNCHANGED notAgg

TrIdle == message_audios = {} /\ tr_log = << >>

AggInit ==
    /\ TrIdle
    /\ captured = << >>
    /\ q_images = {} /\ q_audio = {} /\ q_text = {} /\ q_transcribed = {}
    /\ delivered = {}
    /\ redelivered = 0
    /\ message_data = << >>
    /\ pending_confirmations = << >>
    /\ publishing = [m \in MsgIds |-> 0]
    /\ ready = << >>
    /\ merged = [p \in MsgIds \X Kinds |-> 0]

AggNext ==
    \/ \E m \in MsgIds, c \in ChatIds, t \in Texts, hv, hp, ha \in BOOLEAN :
           Capture(m, c, t, hv, hp, ha)
    \/ \E sig \in q_audio : Transcribe(sig)
    \/ \E sig \in q_images : process_images_message(sig)
    \/ \E sig \in q_transcribed : process_transcribed_audio_message(sig)
    \/ \E sig \in q_text : process_text_message(sig)
    \/ \E m \in MsgIds : FinishPublish(m)
    \/ \E p \in delivered : Redeliver(p[1], p[2])

\* the pipeline up to the ReadyEvent, with the store dropped and the
\* Aggregator restarted at any moment
FaultNext ==
    \/ \E m \in MsgIds, c \in ChatIds, t \in Texts, hv, hp, ha \in BOOLEAN :
           Capture(m, c, t, hv, hp, ha)
    \/ \E sig \in q_audio : Transcribe(sig)
    \/ \E sig \in q_images : process_images_message(sig)
    \/ \E sig \in q_transcribed : process_transcribed_audio_message(sig)
    \/ \E sig \in q_text : process_text_message(sig)
    \/ \E m \in MsgIds : FinishPublish(m)
    \/ drop_db_and_user
    \/ Restart

\* ------------------------------------------------------------------------
\* The Aggregator fed with any well-formed or malformed signal event

MaxSignals == 2
SigKeys == MsgIds \cup {NoId}

\* the flag combinations of the signals: none, photo, audio, video
SigFlags == {<<FALSE, FALSE, FALSE>>, <<FALSE, TRUE, FALSE>>,
             <<FALSE, FALSE, TRUE>>, <<TRUE, FALSE, FALSE>>}

\* the event without its message_id key
DropMessageId(ev) == [f \in DOMAIN ev \ {"message_id"} |-> ev[f]]

\* the payloads of multimedia.images and multimedia.text
MediaEvents ==
    {MediaInfo(m, 1, t, fl[1], fl[2], fl[3]) : m \in MsgIds, t \in Texts, fl \in SigFlags}

\* the events a queue can hold, with or without message_id
SignalEvents(kind) ==
    LET evs == IF kind = "transcribed_audio"
               THEN {TranscribedMessage(e) : e \in MediaEvents}
               ELSE MediaEvents
    IN  evs \cup {DropMessageId(e) : e \in evs}

\* number of signals handled so far
RECURSIVE SumOver(_, _)
SumOver(f, S) ==
    IF S = {} THEN 0
    ELSE LET x == CHOOSE y \in S : TRUE IN f[x] + SumOver(f, S \ {x})

\* the consume callback of a queue runs for an event of that queue
ReceiveSignal(kind, sig) ==
    /\ SumOver(merged, DOMAIN merged) < MaxSignals
    /\ Ingest(kind, sig)
    /\ UNCHANGED <<captured, q_images, q_audio, q_text, q_transcribed, redelivered>>
    /\ UNCHANGED notAgg

SigInit ==
    /\ TrIdle
    /\ captured = << >>
    /\ q_images = {} /\ q_audio = {} /\ q_text = {} /\ q_transcribed = {}
    /\ delivered = {}
    /\ redelivered = 0
    /\ message_data = << >>
    /\ pending_confirmations = << >>
    /\ publishing = [m \in SigKeys |-> 0]
    /\ ready = << >>
    /\ merged = [p \in SigKeys \X Kinds |-> 0]

SigNext ==
    \/ \E kind \in Kinds : \E sig \in SignalEvents(kind) : ReceiveSignal(kind, sig)
    \/ \E m \in SigKeys : FinishPublish(m)

\* ------------------------------------------------------------------------
\* Relational store: table rules

NumRules == 5
RuleIds == 1..NumRules
RuleTypes == {"BAN", "NOTIFY", "OBSERVE"}

RuleText(id) == <<"rule", id>>
ExplanationText(id) == <<"why", id>>
\* every fourth rule belongs to chat 2, the others to chat 1
RuleChat(id) == IF id % 4 = 0 THEN 2 ELSE 1
RuleType(id) == CASE id % 3 = 1 -> "BAN" [] id % 3 = 2 -> "NOTIFY" [] OTHER -> "OBSERVE"

RuleRow(id, act) ==
    [id |-> id, chat_id |-> RuleChat(id), rule_text |-> RuleText(id),
     explanation_text |-> ExplanationText(id), type |-> RuleType(id),
     activated |-> act]

RuleTables == {[id \in RuleIds |-> RuleRow(id, act[id])] : act \in [RuleIds -> BOOLEAN]}
NoRules == << >>

\* ------------------------------------------------------------------------
\* Rule Evaluator (src/llm-src/main.py)

BatchSize == 3
QueryLimit == 3

Min(S) == CHOOSE x \in S : \A y \in S : x <= y
Max(S) == CHOOSE x \in S : \A y \in S : x >= y

RECURSIVE SortedIds(_)
SortedIds(S) == IF S = {} THEN << >> ELSE <<Min(S)>> \o SortedIds(S \ {Min(S)})

Prefix(seq, n) == SubSeq(seq, 1, IF Len(seq) < n THEN Len(seq) ELSE n)

\* SELECT id, rule_text, explanation_text, type ... ORDER BY id (no LIMIT)
SelectActiveRules(chat) ==
    LET ids == SortedIds({id \in DOMAIN rules :
                              rules[id].chat_id = chat /\ rules[id].activated})
    IN  [i \in 1..Len(ids) |->
            [id |-> ids[i], rule_text |-> rules[ids[i]].rule_text,
             explanation_text |-> rules[ids[i]].explanation_text,
             type |-> rules[ids[i]].type]]

\* get_active_rules: ... ORDER BY id LIMIT 3
get_active_rules(chat) == Prefix(SelectActiveRules(chat), QueryLimit)

\* [all_rules[i:i + 3] for i in range(0, len(all_rules), 3)]
RECURSIVE Batches(_)
Batches(all) ==
    IF all = << >> THEN << >>
    ELSE <<Prefix(all, BatchSize)>> \o
         Batches(SubSeq(all, Len(Prefix(all, BatchSize)) + 1, Len(all)))

\* a slip: the requirements are listed from the last rule to the first
prepare_prompt_mut(data, batch) ==
    [context |-> IF "is_reply" \in DOMAIN data /\ data.is_reply
                 THEN <<data.reply_text>> ELSE << >>,
     comment |-> data.text,
     requirements |-> [i \in 1..Len(batch) |->
                          <<i, batch[Len(batch) + 1 - i].rule_text>>],
     format |-> [i \in 1..Len(batch) |-> i]]

\* prepare_prompt: the parts of the prompt that depend on its arguments
prepare_prompt(data, batch) ==
    [context |-> IF "is_reply" \in DOMAIN data /\ data.is_reply
                 THEN <<data.reply_text>> ELSE << >>,
     comment |-> data.text,
     requirements |-> [i \in 1..Len(batch) |-> <<i, batch[i].rule_text>>],
     format |-> [i \in 1..Len(batch) |-> i]]

\* --- strings as sequences of characters
IsSpace(c) == c \in {" ", "\n"}

\* str.strip()
Strip(s) ==
    LET keep == {i \in 1..Len(s) : ~IsSpace(s[i])}
    IN  IF keep = {} THEN << >> ELSE SubSeq(s, Min(keep), Max(keep))

\* str.split(sep)
RECURSIVE Split(_, _)
Split(s, sep) ==
    LET at == {i \in 1..Len(s) : s[i] = sep}
    IN  IF at = {} THEN <<s>>
        ELSE <<SubSeq(s, 1, Min(at) - 1)>> \o Split(SubSeq(s, Min(at) + 1, Len(s)), sep)

\* str.split(sep, 1)
SplitOnce(s, sep) ==
    LET at == {i \in 1..Len(s) : s[i] = sep}
    IN  IF at = {} THEN <<s>>
        ELSE <<SubSeq(s, 1, Min(at) - 1), SubSeq(s, Min(at) + 1, Len(s))>>

LowerChar(c) ==
    CASE c = "Y" -> "y" [] c = "E" -> "e" [] c = "S" -> "s"
      [] c = "N" -> "n" [] c = "O" -> "o" [] OTHER -> c

\* str.lower()
Lower(s) == [i \in 1..Len(s) |-> LowerChar(s[i])]

Digits == <<"0", "1", "2", "3", "4", "5", "6", "7", "8", "9">>
IsDigit(c) == \E d \in 1..10 : Digits[d] = c
DigitValue(c) == (CHOOSE d \in 1..10 : Digits[d] = c) - 1

RECURSIVE DecimalValue(_)
DecimalValue(ds) ==
    IF ds = << >> THEN 0
    ELSE 10 * DecimalValue(SubSeq(ds, 1, Len(ds) - 1)) + DigitValue(ds[Len(ds)])

\* int(str): surrounding whitespace ignored, an optional sign, then digits
ParseInt(s) ==
    LET t == Strip(s)
        signed == t /= << >> /\ t[1] \in {"+", "-"}
        ds == IF signed THEN Tail(t) ELSE t
    IN  IF ds /= << >> /\ \A i \in 1..Len(ds) : IsDigit(ds[i])
        THEN [ok |-> TRUE,
              value |-> IF signed /\ t[1] = "-" THEN 0 - DecimalValue(ds)
                        ELSE DecimalValue(ds)]
        ELSE [ok |-> FALSE, value |-> 0]

Yes == <<"y", "e", "s">>

\* a slip: only IndexError is caught
CaughtErrors_mut == {"IndexError"}

\* except (ValueError, IndexError)
CaughtErrors == {"ValueError", "IndexError"}

\* the body of the try block of parse_llm_response for one stripped line
ParseLine(line, batch) ==
    IF line = << >> THEN [kind |-> "skip"]
    ELSE LET parts == SplitOnce(line, ".") IN
         IF Len(parts) /= 2 THEN [kind |-> "skip"]
         ELSE LET num == ParseInt(Strip(parts[1])) IN
              IF ~num.ok THEN [kind |-> "raise", exc |-> "ValueError"]
              ELSE LET rule_num == num.value
                       answer == Lower(Strip(parts[2]))
                   IN  IF 1 <= rule_num /\ rule_num <= Len(batch)
                       THEN IF answer = Yes
                            THEN [kind |-> "violation",
                                  v |-> [rule_id |-> batch[rule_num].id,
                                         rule_name |-> batch[rule_num].rule_text,
                                         rule_description |->
                                             batch[rule_num].explanation_text]]
                            ELSE [kind |-> "skip"]
                       ELSE [kind |-> "skip"]

RECURSIVE ParseLines(_, _, _)
ParseLines(lines, batch, acc) ==
    IF lines = << >> THEN [violations |-> acc, raised |-> FALSE]
    ELSE LET r == ParseLine(Strip(Head(lines)), batch) IN
         CASE r.kind = "violation" ->
                  ParseLines(Tail(lines), batch, Append(acc, r.v))
           [] r.kind = "raise" /\ r.exc \notin CaughtErrors ->
                  [violations |-> acc, raised |-> TRUE]
           [] OTHER -> ParseLines(Tail(lines), batch, acc)

\* parse_llm_response
parse_llm_response(response, batch) ==
    ParseLines(Split(Strip(response), "\n"), batch, << >>)

\* the rule id written in the place of the message id
ViolationMessage_mut(v, message_id) ==
    [rule_id |-> v.rule_id, rule_name |-> v.rule_name,
     rule_description |-> v.rule_description, message_id |-> v.rule_id + 100]

\* violation_message of process_message
ViolationMessage(v, message_id) ==
    [rule_id |-> v.rule_id, rule_name |-> v.rule_name,
     rule_description |-> v.rule_description, message_id |-> message_id]

\* --- model answers: lines the endpoint may return
L_1Yes     == <<"1", ".", " ", "Y", "e", "s">>
L_2No      == <<"2", ".", " ", "N", "o">>
L_2YES     == <<"2", ".", " ", "Y", "E", "S">>
L_7Yes     == <<"7", ".", " ", "Y", "e", "s">>
L_0Yes     == <<"0", ".", " ", "Y", "e", "s">>
L_banana   == <<"b", "a", "n", "a", "n", "a">>
L_xYes     == <<"x", ".", " ", "Y", "e", "s">>
L_1Yes_ns  == <<"1", ".", "Y", "e", "s">>
L_3Yes_sp  == <<" ", "3", " ", ".", " ", " ", "y", "e", "s", " ">>

AnswerLines ==
    {L_1Yes, L_2No, L_2YES, L_3Yes_sp, L_7Yes, L_0Yes, L_banana, L_xYes,
     L_1Yes_ns}

MaxLines == 2

RECURSIVE Join(_, _)
Join(lines, sep) ==
    IF lines = << >> THEN << >>
    ELSE IF Len(lines) = 1 THEN lines[1]
    ELSE lines[1] \o <<sep>> \o Join(Tail(lines), sep)

LineSeqs == UNION {[1..n -> AnswerLines] : n \in 0..MaxLines}
Responses == {Join(ls, "\n") : ls \in LineSeqs}

ReadyEvents ==
    {[message_id |-> m, chat_id |-> c, has_video |-> FALSE, has_photo |-> FALSE,
      has_audio |-> FALSE, image_uuids |-> << >>, audio_uuids |-> << >>,
      transcribed_text |-> None, text |-> "hello"] : m \in MsgIds, c \in ChatIds}

EvalIdle ==
    /\ ev_pc = "idle"
    /\ ev_data = None
    /\ ev_batches = << >>
    /\ prompts = << >>
    /\ answers = << >>
    /\ rule_match = << >>
    /\ ev_settled = "none"

\* process_message up to the first batch
EvalReceive(data) ==
    /\ ev_pc = "idle"
    /\ ev_data' = data
    /\ LET all_rules == get_active_rules(data.chat_id) IN
         /\ ev_batches' = Batches(all_rules)
         /\ ev_pc' = IF all_rules = << >> THEN "done" ELSE "batches"
         /\ ev_settled' = IF all_rules = << >> THEN MessageProcess(FALSE) ELSE "none"
    /\ UNCHANGED <<prompts, answers, rule_match>>
    /\ UNCHANGED notEval

\* one turn of the loop over rule_batches: prompt, model call, parse, publish
EvalBatch(response) ==
    /\ ev_pc = "batches"
    /\ LET batch == Head(ev_batches)
           parsed == parse_llm_response(response, batch)
           out == IF parsed.raised THEN << >>
                  ELSE [i \in 1..Len(parsed.violations) |->
                           ViolationMessage(parsed.violations[i], ev_data.message_id)]
       IN  /\ prompts' = Append(prompts, prepare_prompt(ev_data, batch))
           /\ answers' = Append(answers, [batch |-> batch, response |-> response,
                                          parse_raised |-> parsed.raised,
                                          published |-> out])
           /\ rule_match' = rule_match \o out
           /\ ev_batches' = Tail(ev_batches)
           /\ ev_pc' = IF parsed.raised THEN "failed"
                       ELSE IF Tail(ev_batches) = << >> THEN "done" ELSE "batches"
           /\ ev_settled' = IF parsed.raised THEN MessageProcess(TRUE)
                            ELSE IF Tail(ev_batches) = << >> THEN MessageProcess(FALSE)
                            ELSE "none"
    /\ UNCHANGED ev_data
    /\ UNCHANGED notEval

\* process_with_llm raises: the consume fails
EvalModelFailure ==
    /\ ev_pc = "batches"
    /\ prompts' = Append(prompts, prepare_prompt(ev_data, Head(ev_batches)))
    /\ ev_pc' = "failed"
    /\ ev_settled' = MessageProcess(TRUE)
    /\ UNCHANGED <<ev_data, ev_batches, answers, rule_match>>
    /\ UNCHANGED notEval

EvalNext ==
    \/ \E data \in ReadyEvents : EvalReceive(data)
    \/ \E response \in Responses : EvalBatch(response)
    \/ EvalModelFailure

\* ------------------------------------------------------------------------
\* Relational store: chat_moderators, rule_violation_notification_policies

MaxToggles == 2
ModIds == {11, 12}
PolicyTypes == {"BAN", "NOTIFICATION"}

\* every rule of RuleIds, activated
AllRules == [id \in RuleIds |-> RuleRow(id, TRUE)]

\* chat 1 has a row per moderator, chat 2 has no moderator
ModeratorTables ==
    {{[chat_id |-> 1, user_id |-> u, activated |-> act[u]] : u \in ModIds} :
        act \in [ModIds -> BOOLEAN]}

\* Database.get_notification_policy_status
get_notification_policy_status(moderator_id, policy_type) ==
    LET notify_policy == "NOTIFY_" \o policy_type
        not_notify_policy == "NOT_NOTIFY_" \o policy_type
    IN  IF <<moderator_id, notify_policy>> \notin policies
           /\ <<moderator_id, not_notify_policy>> \notin policies
        THEN TRUE
        ELSE <<moderator_id, notify_policy>> \in policies

\* a slip: the DELETE removes every row of the moderator
set_notification_policy_status_mut(moderator_id, policy_type, enabled) ==
    LET notify_policy == "NOTIFY_" \o policy_type
        not_notify_policy == "NOT_NOTIFY_" \o policy_type
    IN  {p \in policies : p[1] /= moderator_id}
        \cup {<<moderator_id, IF enabled THEN notify_policy ELSE not_notify_policy>>}

\* Database.set_notification_policy_status: the table after the call
set_notification_policy_status(moderator_id, policy_type, enabled) ==
    LET notify_policy == "NOTIFY_" \o policy_type
        not_notify_policy == "NOT_NOTIFY_" \o policy_type
    IN  (policies \ {<<moderator_id, notify_policy>>,
                     <<moderator_id, not_notify_policy>>})
        \cup {<<moderator_id, IF enabled THEN notify_policy ELSE not_notify_policy>>}

\* TelegramBot.handle_toggle_notification_policy
handle_toggle_notification_policy(user_id, policy_type) ==
    /\ toggles < MaxToggles
    /\ toggles' = toggles + 1
    /\ last_toggle' = [moderator |-> user_id, policy_type |-> policy_type,
                       before |-> [p \in ModIds \X PolicyTypes |->
                                      get_notification_policy_status(p[1], p[2])]]
    /\ policies' = set_notification_policy_status(
                       user_id, policy_type,
                       ~get_notification_policy_status(user_id, policy_type))
    /\ UNCHANGED <<chat_moderators, dp_pc, dp_data, dp_rule, dp_queue,
                   dp_checked, effects, dp_acked, dp_log>>
    /\ UNCHANGED notDisp

\* ------------------------------------------------------------------------
\* Decision Dispatcher (src/decider-src/main.py)

\* SQL NULL: fetchval found no row
NoRow == "NULL"

\* what "SELECT policy ... WHERE moderator_id = $1" can return through
\* fetchval: the policy of any one row of the moderator (no ORDER BY)
FetchPolicy(user_id) ==
    LET found == {r[2] : r \in {p \in policies : p[1] = user_id}}
    IN  IF found = {} THEN {NoRow} ELSE found

\* a slip: no row counts as notifications switched off
get_notification_policy_mut(policy) ==
    policy /= NoRow /\ policy \in {"NOTIFY_BAN", "NOTIFY_NOTIFICATION"}

\* get_notification_policy: the value returned for a fetched policy
get_notification_policy(policy) ==
    policy = NoRow \/ policy \in {"NOTIFY_BAN", "NOTIFY_NOTIFICATION"}

\* get_rule_info
get_rule_info(rule_id) ==
    IF rule_id \in DOMAIN rules THEN rules[rule_id] ELSE None

\* the query without "AND cm.activated = TRUE"
get_moderators_for_chat_mut(chat_id) ==
    {r.user_id : r \in {x \in chat_moderators : x.chat_id = chat_id}}

\* get_moderators_for_chat: user ids of the activated moderators
get_moderators_for_chat(chat_id) ==
    {r.user_id : r \in {x \in chat_moderators : x.chat_id = chat_id /\ x.activated}}

\* the orders in which the rows of a query without ORDER BY can come
Orders(S) == {q \in [1..Cardinality(S) -> S] : \A i, j \in DOMAIN q : i /= j => q[i] /= q[j]}

\* InlineKeyboardButton(callback_data = "violation_action:<id>:<action>")
Button(id, action) == [violation_id |-> id, action |-> action]

\* the keyboard built for a rule
DispatchKeyboard(rule, message_id) ==
    IF rule.type = "NOTIFY" THEN {Button(message_id, "BAN")}
    ELSE {Button(message_id, "UNBAN")}

\* the forward inside the try block of the notification
NotifyCalls_mut(data, rule, user_id, fwdOK, sendOK, delOK, banOK) ==
    LET forward == [op |-> "forward_message", from_chat_id |-> rule.chat_id,
                    chat_id |-> user_id, message_id |-> data.message_id,
                    ok |-> fwdOK]
        send == [op |-> "send_message", chat_id |-> user_id,
                 rule_text |-> rule.rule_text, type |-> rule.type,
                 reply_markup |-> DispatchKeyboard(rule, data.message_id),
                 ok |-> sendOK]
        delete == [op |-> "delete_message", chat_id |-> rule.chat_id,
                   message_id |-> data.message_id, ok |-> delOK]
        \* data['user_id'] raises KeyError when the event has no such key
        ban == IF "user_id" \in DOMAIN data
               THEN <<[op |-> "ban_chat_member", chat_id |-> rule.chat_id,
                       user_id |-> data.user_id, ok |-> banOK]>>
               ELSE << >>
    IN  IF ~fwdOK THEN <<forward>>
        ELSE <<forward, send>> \o
             (IF sendOK /\ rule.type = "BAN"
              THEN <<delete>> \o (IF delOK THEN ban ELSE << >>)
              ELSE << >>)

\* the platform calls made for one moderator who is to be notified; a call
\* is listed with its outcome, a call that is never reached is not listed
NotifyCalls(data, rule, user_id, fwdOK, sendOK, delOK, banOK) ==
    LET forward == [op |-> "forward_message", from_chat_id |-> rule.chat_id,
                    chat_id |-> user_id, message_id |-> data.message_id,
                    ok |-> fwdOK]
        send == [op |-> "send_message", chat_id |-> user_id,
                 rule_text |-> rule.rule_text, type |-> rule.type,
                 reply_markup |-> DispatchKeyboard(rule, data.message_id),
                 ok |-> sendOK]
        delete == [op |-> "delete_message", chat_id |-> rule.chat_id,
                   message_id |-> data.message_id, ok |-> delOK]
        \* data['user_id'] raises KeyError when the event has no such key
        ban == IF "user_id" \in DOMAIN data
               THEN <<[op |-> "ban_chat_member", chat_id |-> rule.chat_id,
                       user_id |-> data.user_id, ok |-> banOK]>>
               ELSE << >>
    IN  <<forward, send>> \o
        (IF sendOK /\ rule.type = "BAN"
         THEN <<delete>> \o (IF delOK THEN ban ELSE << >>)
         ELSE << >>)

\* the events the Rule Evaluator publishes to message-rule-match
ViolationEvents ==
    {ViolationMessage([rule_id |-> id, rule_name |-> RuleText(id),
                       rule_description |-> ExplanationText(id)], m) :
        id \in RuleIds, m \in MsgIds}

DispIdle ==
    /\ dp_pc = "idle"
    /\ dp_data = None
    /\ dp_rule = None
    /\ dp_queue = << >>
    /\ dp_checked = << >>
    /\ effects = << >>
    /\ dp_acked = FALSE
    /\ dp_log = << >>

\* process_rule_match up to the loop over the moderators
BeginDispatch(data) ==
    /\ dp_data' = data
    /\ LET rule == get_rule_info(data.rule_id)
           moderators == IF rule = None THEN {}
                         ELSE get_moderators_for_chat(rule.chat_id)
       IN  /\ dp_rule' = rule
           /\ dp_queue' \in Orders(moderators)
           /\ dp_pc' = IF moderators = {} THEN "done" ELSE "loop"
           /\ dp_acked' = (moderators = {})

DispatchStart(data) ==
    /\ dp_pc = "idle"
    /\ BeginDispatch(data)
    /\ UNCHANGED <<chat_moderators, policies, toggles, last_toggle, dp_checked, effects, dp_log>>
    /\ UNCHANGED notDisp

MaxRedispatch == 1

\* the queue holds the event just dispatched once more (a duplicate from
\* upstream or a redelivery): process_rule_match runs for it again
DispatchAgain ==
    /\ dp_pc = "done"
    /\ Len(dp_log) < MaxRedispatch
    /\ dp_log' = Append(dp_log, [data |-> dp_data, effects |-> effects])
    /\ effects' = << >>
    /\ dp_checked' = << >>
    /\ BeginDispatch(dp_data)
    /\ UNCHANGED <<chat_moderators, policies, toggles, last_toggle>>
    /\ UNCHANGED notDisp

\* a slip: no try block around the turn, a failed send ends the loop and
\* the exception leaves message.process()
DispatchModerator_mut(dbOK, fwdOK, sendOK, delOK, banOK) ==
    /\ dp_pc = "loop"
    /\ LET user_id == Head(dp_queue) IN
         \E policy \in FetchPolicy(user_id) :
           LET should_notify == IF dbOK THEN get_notification_policy(policy) ELSE TRUE
               stop == should_notify /\ ~sendOK
           IN  /\ dp_checked' = Append(dp_checked, [moderator |-> user_id,
                       rows |-> {p[2] : p \in {r \in policies : r[1] = user_id}},
                       db_failed |-> ~dbOK, should_notify |-> should_notify])
               /\ effects' = IF should_notify
                             THEN effects \o NotifyCalls(dp_data, dp_rule, user_id, fwdOK, sendOK, delOK, banOK)
                             ELSE effects
               /\ dp_queue' = IF stop THEN << >> ELSE Tail(dp_queue)
               /\ dp_pc' = IF stop \/ Tail(dp_queue) = << >> THEN "done" ELSE "loop"
               /\ dp_acked' = (~stop /\ Tail(dp_queue) = << >>)
    /\ UNCHANGED <<chat_moderators, policies, toggles, last_toggle, dp_data, dp_rule, dp_log>>
    /\ UNCHANGED notDisp

\* one turn of the loop "for moderator in moderators"
DispatchModerator(dbOK, fwdOK, sendOK, delOK, banOK) ==
    /\ dp_pc = "loop"
    /\ LET user_id == Head(dp_queue) IN
         \E policy \in FetchPolicy(user_id) :
           LET should_notify == IF dbOK THEN get_notification_policy(policy) ELSE TRUE
           IN  /\ dp_checked' = Append(dp_checked,
                      [moderator |-> user_id,
                       rows |-> {p[2] : p \in {r \in policies : r[1] = user_id}},
                       db_failed |-> ~dbOK,
                       should_notify |-> should_notify])
               /\ effects' = IF should_notify
                             THEN effects \o NotifyCalls(dp_data, dp_rule, user_id,
                                                         fwdOK, sendOK, delOK, banOK)
                             ELSE effects
    /\ dp_queue' = Tail(dp_queue)
    /\ dp_pc' = IF Tail(dp_queue) = << >> THEN "done" ELSE "loop"
    /\ dp_acked' = (Tail(dp_queue) = << >>)
    /\ UNCHANGED <<chat_moderators, policies, toggles, last_toggle, dp_data, dp_rule, dp_log>>
    /\ UNCHANGED notDisp

\* the dispatcher with an event delivered more than once
RedispNext ==
    \/ \E data \in ViolationEvents : DispatchStart(data)
    \/ \E dbOK, fwdOK, sendOK, delOK, banOK \in BOOLEAN :
           DispatchModerator(dbOK, fwdOK, sendOK, delOK, banOK)
    \/ DispatchAgain

DispNext ==
    \/ \E u \in ModIds, t \in PolicyTypes : handle_toggle_notification_policy(u, t)
    \/ \E data \in ViolationEvents : DispatchStart(data)
    \/ \E dbOK, fwdOK, sendOK, delOK, banOK \in BOOLEAN :
           DispatchModerator(dbOK, fwdOK, sendOK, delOK, banOK)

\* ------------------------------------------------------------------------
\* Moderator response (src/src/bot.py, src/src/db.py)

MaxTaps == 3
ViolationIds == {1, 2}
\* moderators whose get_user_role is UserRole.ADMIN
Admins == {11}
Actions == {"BAN", "UNBAN", "WATCH"}

\* table rule_violations: violation v is of rule v on captured message v
ViolationRow(id) == [id |-> id, rule_id |-> id, violator_msg_id |-> id]

\* Database.get_rule_violation: the joined row, None when no row has the id
get_rule_violation(violation_id) ==
    IF violation_id \in ViolationIds /\ violation_id \in DOMAIN rules
    THEN [id |-> violation_id,
          rule_id |-> ViolationRow(violation_id).rule_id,
          rule_type |-> rules[ViolationRow(violation_id).rule_id].type,
          chat_id |-> rules[ViolationRow(violation_id).rule_id].chat_id,
          violator_id |-> AuthorOf(ViolationRow(violation_id).violator_msg_id)]
    ELSE None

\* Database.update_decision: UPDATE ... SET decision = $2 WHERE id = $1
update_decision(table, decision_id, decision) ==
    [i \in DOMAIN table |->
        IF table[i].id = decision_id
        THEN [table[i] EXCEPT !.decision = decision]
        ELSE table[i]]

\* Database.add_decision: INSERT, the id is the next of the serial
add_decision(table, rule_violation_id, moderator_id, decision) ==
    Append(table, [id |-> Len(table) + 1,
                   rule_violation_id |-> rule_violation_id,
                   moderator_id |-> moderator_id,
                   decision |-> decision])

\* the control of a notification of the dispatcher carries a message id in
\* the place of the violation id; no violation has this one
StaleButton == Button(3, "UNBAN")

\* the controls a moderator can tap
Presented(m) == UNION {control[m][v] : v \in ViolationIds} \cup {StaleButton}

\* the keyboard a violation is listed with
ListKeyboard(user_id, violation) ==
    (IF violation.rule_type = "NOTIFY"
     THEN {Button(violation.id, "BAN")}
     ELSE {Button(violation.id, "UNBAN")})
    \cup (IF user_id \in Admins THEN {Button(violation.id, "WATCH")} ELSE {})

\* handle_violation_type_select, for one violation listed: a violation is
\* listed once for a moderator (set_last_seen)
handle_violation_type_select(user_id, v) ==
    /\ control[user_id][v] = {}
    /\ control' = [control EXCEPT ![user_id][v] =
                       ListKeyboard(user_id, get_rule_violation(v))]
    /\ UNCHANGED <<decisions, banned, taps, last_tap, tapped>>
    /\ UNCHANGED notDec

\* the keyboard sent after an action
OppositeKeyboard(violation_id, action) ==
    IF action = "BAN" THEN {Button(violation_id, "UNBAN")}
    ELSE {Button(violation_id, "BAN")}

\* the decision of the row recorded last for a violation, None without one
CurrentDecision(table, v) ==
    LET rows == {i \in DOMAIN table : table[i].rule_violation_id = v}
    IN  IF rows = {} THEN None
        ELSE [decision |-> table[CHOOSE i \in rows : \A j \in rows : j <= i].decision]

\* handle_violation_action: a tap of moderator user_id on a control
handle_violation_action(user_id, button, callOK) ==
    /\ taps < MaxTaps
    /\ button \in Presented(user_id)
    /\ taps' = taps + 1
    /\ LET violation_id == button.violation_id
           action == button.action
           violation == get_rule_violation(violation_id)
           recorded == add_decision(update_decision(decisions, violation_id, action),
                                    violation_id, user_id, action)
           called == action \in {"BAN", "UNBAN"}
           tap == [moderator |-> user_id, violation_id |-> violation_id,
                   action |-> action,
                   call |-> IF action = "BAN" THEN "ban_chat_member"
                            ELSE IF action = "UNBAN" THEN "unban_chat_member"
                            ELSE "none",
                   before |-> CurrentDecision(decisions, violation_id)]
       IN  IF violation = None
           THEN /\ last_tap' = tap @@
                               [found |-> FALSE, call_ok |-> TRUE, presented |-> None]
                /\ UNCHANGED <<decisions, banned, control, tapped>>
           ELSE /\ decisions' = recorded
                /\ tapped' = [tapped EXCEPT ![violation_id] = action]
                /\ IF called /\ ~callOK
                   THEN /\ last_tap' = tap @@ [found |-> TRUE, call_ok |-> FALSE,
                                               presented |-> None]
                        /\ UNCHANGED <<banned, control>>
                   ELSE /\ banned' =
                               IF action = "BAN"
                               THEN banned \cup {<<violation.chat_id, violation.violator_id>>}
                               ELSE IF action = "UNBAN"
                               THEN banned \ {<<violation.chat_id, violation.violator_id>>}
                               ELSE banned
                        /\ control' = [control EXCEPT ![user_id][violation_id] =
                                           OppositeKeyboard(violation_id, action)]
                        /\ last_tap' = tap @@
                               [found |-> TRUE, call_ok |-> TRUE,
                                presented |-> [keyboard |-> OppositeKeyboard(violation_id, action)]]
    /\ UNCHANGED notDec

DecIdle ==
    /\ decisions = << >>
    /\ control = [m \in ModIds |-> [v \in ViolationIds |-> {}]]
    /\ banned = {}
    /\ taps = 0
    /\ last_tap = None
    /\ tapped = [v \in ViolationIds |-> "none"]

DecNext ==
    \/ \E m \in ModIds, v \in ViolationIds : handle_violation_type_select(m, v)
    \/ \E m \in ModIds, v \in ViolationIds \cup {StaleButton.violation_id},
          a \in Actions, callOK \in BOOLEAN :
           handle_violation_action(m, Button(v, a), callOK)

\* ------------------------------------------------------------------------
\* Specifications

\* Capture + Transcription Consumer + Aggregator
StoreEmpty ==
    chat_moderators = {} /\ policies = {} /\ toggles = 0 /\ last_toggle = None

Init == AggInit /\ rules = NoRules /\ EvalIdle /\ StoreEmpty /\ DispIdle /\ DecIdle

Next == AggNext

Spec == Init /\ [][Next]_vars

\* Capture, Transcription Consumer and Aggregator with faults
InitFault == Init

NextFault == FaultNext

SpecFault == InitFault /\ [][NextFault]_vars

\* the Aggregator and any signal event
InitSig == SigInit /\ rules = NoRules /\ EvalIdle /\ StoreEmpty /\ DispIdle /\ DecIdle

NextSig == SigNext

SpecSig == InitSig /\ [][NextSig]_vars

\* Rule Evaluator
InitEval == AggInit /\ rules \in RuleTables /\ EvalIdle /\ StoreEmpty /\ DispIdle /\ DecIdle

NextEval == EvalNext

SpecEval == InitEval /\ [][NextEval]_vars

\* Decision Dispatcher
InitDisp ==
    /\ AggInit /\ EvalIdle /\ DispIdle /\ DecIdle
    /\ rules = AllRules
    /\ chat_moderators \in ModeratorTables
    /\ policies = {}
    /\ toggles = 0
    /\ last_toggle = None

NextDisp == DispNext

SpecDisp == InitDisp /\ [][NextDisp]_vars

\* Decision Dispatcher with duplicate events
InitRedisp == InitDisp

NextRedisp == RedispNext

SpecRedisp == InitRedisp /\ [][NextRedisp]_vars

\* moderator response
InitDec ==
    /\ AggInit /\ EvalIdle /\ DispIdle /\ DecIdle
    /\ rules = AllRules
    /\ chat_moderators \in {t \in ModeratorTables : \A r \in t : r.activated}
    /\ policies = {}
    /\ toggles = 0
    /\ last_toggle = None

NextDec == DecNext

SpecDec == InitDec /\ [][NextDec]_vars

\* ------------------------------------------------------------------------
\* Aggregator claims (checked under Spec)

\* ReadyEvents published for message m
ReadyOf(m) == {i \in 1..Len(ready) : ready[i].message_id = m}

HasMedia(info) == info.has_video \/ info.has_photo \/ info.has_audio

\* C1: for a message captured with has_video = true, a ReadyEvent is in
\* prompt.ready_info only if both an Images and a TranscribedAudio signal of
\* that message have been merged before (whatever their arrival order).
C1_VideoNeedsBoth ==
    \A i \in 1..Len(ready) :
        LET m == ready[i].message_id IN
            captured[m].has_video =>
                /\ merged[<<m, "images">>] > 0
                /\ merged[<<m, "transcribed_audio">>] > 0

C1_Witness ==
    \E i \in 1..Len(ready) :
        /\ captured[ready[i].message_id].has_video
        /\ merged[<<ready[i].message_id, "images">>] = 1
        /\ merged[<<ready[i].message_id, "transcribed_audio">>] = 1

\* C2 (as claimed): for a message with non-empty text and media, every
\* published ReadyEvent comes after the Text signal was merged and carries
\* the message's text.
C2_TextRequired ==
    \A i \in 1..Len(ready) :
        LET m == ready[i].message_id IN
            (captured[m].text /= "" /\ HasMedia(captured[m])) =>
                /\ merged[<<m, "text">>] > 0
                /\ ready[i].text = captured[m].text

\* C3: for a message with text and no media, no ReadyEvent exists before the
\* Text signal is ingested, and once the first Text signal has been ingested
\* exactly one ReadyEvent exists for it, with transcribed_text = null.
C3_TextOnlyImmediate ==
    \A m \in DOMAIN captured :
        (captured[m].text /= "" /\ ~HasMedia(captured[m])) =>
            /\ merged[<<m, "text">>] = 0 => ReadyOf(m) = {}
            /\ merged[<<m, "text">>] = 1 =>
                  /\ Cardinality(ReadyOf(m)) = 1
                  /\ \A i \in ReadyOf(m) :
                        /\ ready[i].transcribed_text = None
                        /\ ready[i].text = captured[m].text

C3_Witness ==
    \E m \in DOMAIN captured :
        /\ captured[m].text /= "" /\ ~HasMedia(captured[m])
        /\ merged[<<m, "text">>] = 1
        /\ Cardinality(ReadyOf(m)) = 1

\* C4 (as claimed): when every signal is delivered once (no redelivery),
\* at most one ReadyEvent is published per message, whatever the
\* interleaving of the handlers around the publish.
C4_AtMostOnePerMessage ==
    redelivered = 0 => \A m \in MsgIds : Cardinality(ReadyOf(m)) <= 1

\* C5 (as claimed): once a message has completed (ReadyEvent published,
\* record removed, no publish in flight), no step publishes another
\* ReadyEvent for it.
C5_NoResurrection ==
    [][\A m \in MsgIds :
          (/\ ReadyOf(m) /= {}
           /\ m \notin DOMAIN message_data
           /\ publishing[m] = 0)
          => Cardinality(ReadyOf(m)') = Cardinality(ReadyOf(m))]_vars

\* the step ingests, once more, a signal of kind k that the pending record
\* of message m already holds, while no publish of m has been started
DuplicateIngest(m, k) ==
    /\ merged'[<<m, k>>] = merged[<<m, k>>] + 1
    /\ m \in DOMAIN message_data
    /\ k \in PendingOf(pending_confirmations, m)
    /\ publishing[m] = 0
    /\ message_data'[m][k] = message_data[m][k]

\* C12: ingesting a signal (same message_id, kind and payload) a second
\* time before the message completes leaves the pending record and the
\* received kinds as they were and publishes no ReadyEvent.
C12_DuplicateIngestIdempotent ==
    [][\A m \in MsgIds, k \in Kinds :
          DuplicateIngest(m, k) =>
              /\ message_data' = message_data
              /\ pending_confirmations' = pending_confirmations
              /\ ready' = ready]_vars

\* a signal was merged twice into a record that is still pending
C12_Witness ==
    \E m \in MsgIds, k \in Kinds :
        /\ merged[<<m, k>>] = 2
        /\ m \in DOMAIN message_data
        /\ k \in PendingOf(pending_confirmations, m)
        /\ publishing[m] = 0
        /\ ReadyOf(m) = {}

\* every signal Capture produced for m was handled once, nothing is left
\* in a queue or suspended at the publish
AllHandledOnce(m) ==
    /\ m \in DOMAIN captured
    /\ redelivered = 0
    /\ q_images = {} /\ q_audio = {} /\ q_text = {} /\ q_transcribed = {}
    /\ publishing[m] = 0
    /\ \E k \in Kinds : merged[<<m, k>>] > 0

\* C13 (as claimed): once every signal Capture produced for a message has
\* been handled exactly once, a ReadyEvent of the message has been
\* published and no pending record of the message remains.
C13_CompletesAndCleansUp ==
    \A m \in MsgIds :
        AllHandledOnce(m) =>
            /\ ReadyOf(m) /= {}
            /\ m \notin DOMAIN message_data
            /\ m \notin DOMAIN pending_confirmations

\* ------------------------------------------------------------------------
\* Aggregator claims about single signal events (checked under SpecSig)

\* the signals handled so far that were filed under key m
SignalsOf(m) == {p[2] : p \in {d \in delivered : MessageIdOf(d[2]) = m}}

\* C14 (as claimed): a signal without message_id is dropped: no pending
\* record and no received-kinds entry exists for it, and no ReadyEvent is
\* built from it.
C14_NoIdDropped ==
    /\ NoId \notin DOMAIN message_data
    /\ NoId \notin DOMAIN pending_confirmations
    /\ ReadyOf(NoId) = {}

TextOf(sig) == IF "text" \in DOMAIN sig THEN sig.text ELSE ""

NoContent(sig) ==
    ~sig.has_video /\ ~sig.has_photo /\ ~sig.has_audio /\ TextOf(sig) = ""

\* C15 (as claimed): a message of which every signal handled has all media
\* flags false and an empty text, whatever the kinds of the signals, has no
\* ReadyEvent.
C15_NoContentNeverCompletes ==
    \A m \in MsgIds :
        (\A sig \in SignalsOf(m) : NoContent(sig)) => ReadyOf(m) = {}

Ids(seq) == {seq[i] : i \in DOMAIN seq}

\* C16 (as claimed): while no ReadyEvent has been published, the record of
\* a message into which signals of different kinds were merged (one per
\* kind) holds the union of what these signals carried: each flag
\* is the OR of the signals' flags, each id list holds every id of every
\* signal.
C16_FlagsAndIdsUnioned ==
    ready = << >> =>
        \A m \in MsgIds :
            (m \in DOMAIN message_data /\ \A k \in Kinds : merged[<<m, k>>] <= 1) =>
                LET rec == message_data[m]
                    sigs == SignalsOf(m)
                IN  /\ rec.has_video <=> \E x \in sigs : x.has_video
                    /\ rec.has_photo <=> \E x \in sigs : x.has_photo
                    /\ rec.has_audio <=> \E x \in sigs : x.has_audio
                    /\ \A x \in sigs : Ids(x.image_uuids) \subseteq Ids(rec.image_uuids)
                    /\ \A x \in sigs : Ids(x.audio_uuids) \subseteq Ids(rec.audio_uuids)

\* ------------------------------------------------------------------------
\* Rule Evaluator claims (checked under SpecEval)

\* C6 (as claimed): when the evaluation of a ReadyEvent is done, one prompt
\* was sent per batch of three of ALL active rules of the chat, and every
\* active rule of the chat was listed in some prompt.
C6_AllRulesEvaluated ==
    ev_pc = "done" =>
        LET all == SelectActiveRules(ev_data.chat_id) IN
            /\ Len(prompts) = (Len(all) + BatchSize - 1) \div BatchSize
            /\ \A i \in 1..Len(all) :
                   \E j \in 1..Len(prompts) :
                       \E k \in 1..Len(prompts[j].requirements) :
                           prompts[j].requirements[k][2] = all[i].rule_text

\* the spellings of "yes" in any letter case
YesWords == {<<a, b, c>> : a \in {"y", "Y"}, b \in {"e", "E"}, c \in {"s", "S"}}

Spaces(n) == [i \in 1..n |-> " "]

\* the line is exactly "<n>. <yes>": digits, a dot, one blank, the word
StrictYes(line, n) ==
    n \in 1..9 /\ \E w \in YesWords : line = <<Digits[n + 1]>> \o <<".", " ">> \o w

\* text that int() reads as n: blanks, an optional "+", the digit, blanks
IntegerText(s, n) ==
    n \in 1..9 /\
    \E a, b \in 0..Len(s) : \E sign \in {<< >>, <<"+">>} :
        s = Spaces(a) \o sign \o <<Digits[n + 1]>> \o Spaces(b)

\* text that is "yes" once trimmed and lower-cased
YesText(s) ==
    \E a, b \in 0..Len(s) : \E w \in YesWords : s = Spaces(a) \o w \o Spaces(b)

\* the line has an integer text for n before its first dot and a yes text
\* after it
LenientYes(line, n) ==
    \E i \in 1..Len(line) :
        /\ line[i] = "."
        /\ \A j \in 1..(i - 1) : line[j] /= "."
        /\ IntegerText(SubSeq(line, 1, i - 1), n)
        /\ YesText(SubSeq(line, i + 1, Len(line)))

\* the rule ids expected for the lines of an answer, in line order, when a
\* line counts iff Accepts(line, n) for an n within the batch
RECURSIVE Concat(_)
Concat(seqs) == IF seqs = << >> THEN << >> ELSE Head(seqs) \o Concat(Tail(seqs))

ExpectedIds(lines, batch, Accepts(_, _)) ==
    Concat([i \in 1..Len(lines) |->
               LET hit == {n \in 1..Len(batch) : Accepts(lines[i], n)} IN
                   IF hit = {} THEN << >> ELSE <<batch[CHOOSE n \in hit : TRUE].id>>])

PublishedIds(a) == [i \in 1..Len(a.published) |-> a.published[i].rule_id]

\* C10 (as claimed): only lines of the exact form "<digits>. <word>" with an
\* index within the batch and the word yes produce a ViolationEvent; parsing
\* raises nothing and goes on after a malformed line.
C10_OnlyStrictLinesCount ==
    \A i \in 1..Len(answers) :
        /\ ~answers[i].parse_raised
        /\ PublishedIds(answers[i]) =
               ExpectedIds(Split(answers[i].response, "\n"), answers[i].batch, StrictYes)

\* C10 (amended): a line produces a ViolationEvent only if the text before
\* its first '.' is, blanks aside, an integer n within [1, batch length] and
\* the text after that '.' is, blanks and letter case aside, "yes"; every
\* other line produces none, parsing raises no error, and the lines after it
\* are still parsed.
C10_MalformedLinesSkipped ==
    \A i \in 1..Len(answers) :
        /\ ~answers[i].parse_raised
        /\ PublishedIds(answers[i]) =
               ExpectedIds(Split(answers[i].response, "\n"), answers[i].batch, LenientYes)

C10_Witness ==
    \E i \in 1..Len(answers) :
        /\ answers[i].response = Join(<<L_xYes, L_1Yes>>, "\n")
        /\ Len(answers[i].batch) = 3
        /\ PublishedIds(answers[i]) = <<answers[i].batch[1].id>>

\* the lines of an answer
LinesOf(a) == Split(a.response, "\n")

\* the line is accepted for some index of the batch
Accepted(line, batch) == \E n \in 1..Len(batch) : LenientYes(line, n)

\* how many of the first i lines are accepted
AcceptedUpTo(lines, batch, i) ==
    Cardinality({j \in 1..i : Accepted(lines[j], batch)})

\* C11: the ViolationEvents of an answer are, one for one and in line order,
\* those of its accepted lines, and the event of a line "n. W" with n within
\* the batch and W a spelling of yes references the n-th rule of that batch
\* and the message_id of the ReadyEvent.
C11_YesIndexesBatch ==
    \A i \in 1..Len(answers) :
        LET a == answers[i]
            lines == LinesOf(a)
        IN  /\ Len(a.published) = AcceptedUpTo(lines, a.batch, Len(lines))
            /\ \A j \in 1..Len(lines) : \A n \in 1..Len(a.batch) :
                   StrictYes(lines[j], n) =>
                       a.published[AcceptedUpTo(lines, a.batch, j)] =
                           [rule_id |-> a.batch[n].id,
                            rule_name |-> a.batch[n].rule_text,
                            rule_description |-> a.batch[n].explanation_text,
                            message_id |-> ev_data.message_id]

\* an answer "2. YES" for a batch whose second rule is not rule 2
C11_Witness ==
    \E i \in 1..Len(answers) :
        /\ answers[i].response = L_2YES
        /\ Len(answers[i].batch) >= 2
        /\ answers[i].batch[2].id /= 2
        /\ Len(answers[i].published) = 1
        /\ answers[i].published[1].rule_id = answers[i].batch[2].id

\* C28: the prompt of a batch lists its rules numbered 1..k in ascending
\* rule id, and the violation published for an answer line "n. Yes" is for
\* the rule whose text that prompt printed as number n.
C28_PromptAndParseAgree ==
    \A i \in 1..Len(answers) :
        LET a == answers[i]
            printed == prompts[i].requirements
            lines == LinesOf(a)
        IN  /\ DOMAIN printed = 1..Len(a.batch)
            /\ \A n \in DOMAIN printed :
                   /\ printed[n][1] = n
                   /\ printed[n][2] = rules[a.batch[n].id].rule_text
            /\ \A n, k \in 1..Len(a.batch) : n < k => a.batch[n].id < a.batch[k].id
            /\ \A j \in 1..Len(lines) : \A n \in 1..Len(a.batch) :
                   StrictYes(lines[j], n) =>
                       LET v == a.published[AcceptedUpTo(lines, a.batch, j)] IN
                           /\ v.rule_name = printed[n][2]
                           /\ rules[v.rule_id].rule_text = printed[n][2]
                           /\ \A k \in DOMAIN printed :
                                  k /= n => printed[k][2] /= v.rule_name

\* a prompt of three rules answered "2. YES" and "1. Yes": the violations
\* are for the rules printed second and first
C28_Witness ==
    \E i \in 1..Len(answers) :
        /\ Len(answers[i].batch) = 3
        /\ answers[i].response = Join(<<L_2YES, L_1Yes>>, "\n")
        /\ Len(answers[i].published) = 2
        /\ answers[i].published[1].rule_name = prompts[i].requirements[2][2]
        /\ answers[i].published[2].rule_name = prompts[i].requirements[1][2]

\* C37 (as claimed): the ViolationEvents published for one ReadyEvent
\* reference pairwise different rules.
C37_OneViolationPerRule ==
    \A i, j \in DOMAIN rule_match :
        i /= j => rule_match[i].rule_id /= rule_match[j].rule_id

\* ------------------------------------------------------------------------
\* Claims about the Decision Dispatcher

Ops(op) == {i \in DOMAIN effects : effects[i].op = op}

\* C7: once the dispatch of a violation of a BAN rule has finished in a chat
\* with at least one activated moderator, and no platform call it made has
\* failed, the dispatcher has asked the platform to delete the offending
\* message and to restrict its author.
C7_BanEnforced ==
    (/\ dp_pc = "done"
     /\ dp_rule /= None
     /\ dp_rule.type = "BAN"
     /\ get_moderators_for_chat(dp_rule.chat_id) /= {}
     /\ \A i \in DOMAIN effects : effects[i].ok)
    => /\ \E i \in Ops("delete_message") :
              /\ effects[i].chat_id = dp_rule.chat_id
              /\ effects[i].message_id = dp_data.message_id
       /\ \E i \in Ops("ban_chat_member") :
              /\ effects[i].chat_id = dp_rule.chat_id
              /\ effects[i].user_id = AuthorOf(dp_data.message_id)

\* C19: when the dispatch of a violation has finished for a chat with no
\* activated moderator, no platform call was made (nothing forwarded, sent,
\* deleted, nobody restricted) and the event is acknowledged.
C19_NoModeratorDrops ==
    (/\ dp_pc = "done"
     /\ dp_rule /= None
     /\ ~\E r \in chat_moderators : r.chat_id = dp_rule.chat_id /\ r.activated)
    => /\ effects = << >>
       /\ dp_acked

\* a violation dispatched in a chat whose moderators are all deactivated
C19_Witness ==
    /\ dp_pc = "done"
    /\ dp_rule /= None
    /\ \E r \in chat_moderators : r.chat_id = dp_rule.chat_id
    /\ ~\E r \in chat_moderators : r.chat_id = dp_rule.chat_id /\ r.activated
    /\ effects = << >>
    /\ dp_acked

\* C20: every forward of the offending message to a moderator, failed or
\* not, is followed by the sending of the rule text with the action control
\* to that moderator, and every moderator who is to be notified is sent it.
C20_ForwardFailureDoesNotBlock ==
    /\ \A i \in Ops("forward_message") :
           /\ i + 1 \in DOMAIN effects
           /\ effects[i + 1].op = "send_message"
           /\ effects[i + 1].chat_id = effects[i].chat_id
           /\ effects[i + 1].rule_text = dp_rule.rule_text
           /\ effects[i + 1].reply_markup = DispatchKeyboard(dp_rule, dp_data.message_id)
    /\ \A j \in DOMAIN dp_checked :
           dp_checked[j].should_notify =>
               \E i \in Ops("send_message") : effects[i].chat_id = dp_checked[j].moderator

\* a failed forward followed by a successful send
C20_Witness ==
    \E i \in Ops("forward_message") :
        /\ ~effects[i].ok
        /\ i + 1 \in DOMAIN effects
        /\ effects[i + 1].op = "send_message"
        /\ effects[i + 1].ok

\* the signals for message m that a step adds to a queue
Added(before, after, m) == {sig \in after \ before : sig.message_id = m}

\* C30: the step that captures a message publishes an Images signal exactly
\* when the message has a stored image, an audio signal exactly when it has
\* a stored audio asset, and a Text signal exactly when its text is not
\* empty; a message with no media and empty text adds nothing to any queue.
C30_SignalPerModality ==
    [][\A m \in MsgIds :
          (m \notin DOMAIN captured /\ m \in DOMAIN captured') =>
              LET info == captured'[m] IN
                  /\ Added(q_images, q_images', m) /= {} <=> info.image_uuids /= << >>
                  /\ Added(q_audio, q_audio', m) /= {}
                         <=> \E i \in DOMAIN info.audio_uuids :
                                 info.audio_uuids[i] \in message_audios'
                  /\ Added(q_text, q_text', m) /= {} <=> info.text /= ""
                  /\ Cardinality(Added(q_images, q_images', m)) <= 1
                  /\ Cardinality(Added(q_audio, q_audio', m)) <= 1
                  /\ Cardinality(Added(q_text, q_text', m)) <= 1
                  /\ (~HasMedia(info) /\ info.text = "") =>
                         /\ q_images' = q_images /\ q_audio' = q_audio
                         /\ q_text' = q_text /\ q_transcribed' = q_transcribed
    ]_vars

\* a photo without caption was captured: one Images signal and nothing else
C30_Witness ==
    /\ delivered = {} /\ tr_log = << >>
    /\ \E m \in DOMAIN captured :
           /\ captured[m].has_photo /\ ~captured[m].has_video
           /\ ~captured[m].has_audio /\ captured[m].text = ""
           /\ q_images = {captured[m]} /\ q_audio = {} /\ q_text = {}

\* every signal that exists: queued for a consumer or already handled
AllSignals ==
    q_images \cup q_audio \cup q_text \cup q_transcribed
        \cup {p[2] : p \in delivered}
        \cup {tr_log[i].data : i \in DOMAIN tr_log}

SameEnvelope(a, b) ==
    /\ a.message_id = b.message_id
    /\ a.chat_id = b.chat_id
    /\ a.has_video = b.has_video
    /\ a.has_photo = b.has_photo
    /\ a.has_audio = b.has_audio
    /\ a.image_uuids = b.image_uuids
    /\ a.audio_uuids = b.audio_uuids

\* C38: any two signals of one captured message, the TranscribedAudio signal
\* included, carry the same message_id, chat_id, has_video, has_photo,
\* has_audio, image ids and audio ids, those Capture built for the message.
C38_SignalsShareEnvelope ==
    /\ \A a, b \in AllSignals :
           a.message_id = b.message_id => SameEnvelope(a, b)
    /\ \A a \in AllSignals :
           a.message_id \in DOMAIN captured /\ SameEnvelope(a, captured[a.message_id])

\* a video with a caption: its Images, Text and TranscribedAudio signals
\* exist side by side
C38_Witness ==
    \E a \in q_images, b \in q_text, c \in q_transcribed :
        /\ a.message_id = b.message_id
        /\ b.message_id = c.message_id
        /\ a.has_video
        /\ \E i \in DOMAIN tr_log : tr_log[i].data.message_id = a.message_id

\* for every pending message, the received kinds are the kinds whose
\* stored event is not null
ReceivedIffStored ==
    /\ DOMAIN message_data = DOMAIN pending_confirmations
    /\ \A m \in DOMAIN pending_confirmations : \A k \in Kinds :
           k \in pending_confirmations[m] <=> message_data[m][k] /= None

\* C39: in every state the received kinds of a pending message are those
\* with a stored event, and every step that merges a signal and finds the
\* required kinds received builds and publishes the ReadyEvent, with the
\* chat_id of the captured message.
C39_ReceivedIffStoredAndBuilt ==
    [][/\ ReceivedIffStored'
       /\ \A m \in MsgIds, k \in Kinds :
              (/\ merged'[<<m, k>>] = merged[<<m, k>>] + 1
               /\ AllCollected(message_data'[m], pending_confirmations'[m])) =>
                  /\ Len(ready') = Len(ready) + 1
                  /\ ready'[Len(ready')].message_id = m
                  /\ ready'[Len(ready')].chat_id = captured[m].chat_id
    ]_vars

\* a video message completed by its second signal: the ReadyEvent is
\* published and the record, not yet deleted, holds both events
C39_Witness ==
    \E m \in DOMAIN pending_confirmations :
        /\ publishing[m] > 0
        /\ pending_confirmations[m] = {"images", "transcribed_audio"}
        /\ message_data[m].images /= None
        /\ message_data[m].transcribed_audio /= None
        /\ message_data[m].text = None
        /\ ReadyOf(m) /= {}

\* the queue a kind of signal is consumed from
QueueOf(kind) ==
    IF kind = "images" THEN q_images
    ELSE IF kind = "text" THEN q_text ELSE q_transcribed

\* C22 (as claimed): a signal the broker no longer holds for the Aggregator
\* has been merged into a record the Aggregator still has, or a ReadyEvent
\* has been published for its message; a signal whose handling was cut short
\* is still with the broker, to be delivered again.
C22_AckedOnlyAfterMergeAndPublish ==
    \A p \in delivered :
        LET m == MessageIdOf(p[2]) IN
            \/ p[2] \in QueueOf(p[1])
            \/ m \in DOMAIN pending_confirmations /\ p[1] \in pending_confirmations[m]
            \/ ReadyOf(m) /= {}

\* the call to the inference endpoint raised for the batch last prompted
ModelCallFailed == ev_pc = "failed" /\ Len(prompts) > Len(answers)

\* C23 (as claimed): when the call to the external model fails, the inbound
\* event is neither acknowledged nor discarded: the broker still holds it and
\* delivers it again.
C23_ModelFailureKeepsEvent ==
    ModelCallFailed => ev_settled = "none"

\* C24: every audio signal transcribed successfully yields exactly one
\* TranscribedAudio signal, with the message_id, chat_id, has_video,
\* has_photo, has_audio, image ids and audio ids of the inbound signal and
\* a non-empty transcribed_text.
C24_TranscribedCarriesInbound ==
    \A i \in DOMAIN tr_log :
        tr_log[i].error = "" =>
            /\ Cardinality(tr_log[i].published) = 1
            /\ \A out \in tr_log[i].published :
                   /\ out.message_id = tr_log[i].data.message_id
                   /\ out.chat_id = tr_log[i].data.chat_id
                   /\ out.has_video = tr_log[i].data.has_video
                   /\ out.has_photo = tr_log[i].data.has_photo
                   /\ out.has_audio = tr_log[i].data.has_audio
                   /\ out.image_uuids = tr_log[i].data.image_uuids
                   /\ out.audio_uuids = tr_log[i].data.audio_uuids
                   /\ out.transcribed_text /= ""
                   /\ \/ out \in q_transcribed
                      \/ <<"transcribed_audio", out>> \in delivered

\* a video message, whose signal carries image ids as well, was transcribed
C24_Witness ==
    \E i \in DOMAIN tr_log :
        /\ tr_log[i].error = ""
        /\ tr_log[i].data.image_uuids /= << >>
        /\ tr_log[i].published /= {}

\* C25: when the audio asset an inbound audio signal refers to is absent
\* from the store, the handler ends with the not-found error and no
\* TranscribedAudio signal is published for that message.
C25_AbsentAudioPublishesNothing ==
    \A i \in DOMAIN tr_log :
        (tr_log[i].data.audio_uuids /= << >>
            /\ Head(tr_log[i].data.audio_uuids) \notin tr_log[i].stored) =>
            /\ tr_log[i].error = AudioNotFound
            /\ tr_log[i].published = {}
            /\ \A out \in q_transcribed :
                   out.message_id /= tr_log[i].data.message_id
            /\ \A p \in delivered :
                   p[1] = "transcribed_audio" =>
                       p[2].message_id /= tr_log[i].data.message_id

C25_Witness ==
    \E i \in DOMAIN tr_log :
        /\ tr_log[i].data.audio_uuids /= << >>
        /\ Head(tr_log[i].data.audio_uuids) \notin tr_log[i].stored
        /\ tr_log[i].settled = "reject"

\* the calls op made successfully in a sequence of calls
Made(calls, op) == {i \in DOMAIN calls : calls[i].op = op /\ calls[i].ok}

\* C21 (as claimed): when the event of an earlier dispatch is dispatched
\* again, a message already deleted is not deleted again, an author already
\* restricted is not restricted again, and a moderator already sent the
\* notification is not sent it again.
C21_RedispatchIdempotent ==
    \A j \in DOMAIN dp_log :
        dp_log[j].data = dp_data =>
            LET before == dp_log[j].effects IN
                /\ Made(before, "delete_message") /= {} => Ops("delete_message") = {}
                /\ Made(before, "ban_chat_member") /= {} => Ops("ban_chat_member") = {}
                /\ \A i \in Made(before, "send_message") :
                       \A k \in Ops("send_message") :
                           effects[k].chat_id /= before[i].chat_id

\* C26 (as claimed): the control sent with a notification offers UNBAN when
\* the author has been restricted for the violation and BAN when not, as
\* for every rule of type NOTIFY or OBSERVE.
C26_ControlMatchesEnforcement ==
    dp_pc = "done" =>
        \A i \in Ops("send_message") :
            LET restricted == Made(effects, "ban_chat_member") /= {} IN
                effects[i].reply_markup =
                    {Button(dp_data.message_id, IF restricted THEN "UNBAN" ELSE "BAN")}

\* C27: a moderator with no row in the policy table is notified whatever
\* the type of the violated rule: the dispatcher's check answers yes and the
\* notification is sent, and the status shown for either category is "on".
C27_NoPolicyRecordNotified ==
    /\ \A j \in DOMAIN dp_checked :
           dp_checked[j].rows = {} =>
               /\ dp_checked[j].should_notify
               /\ \E i \in Ops("send_message") :
                      /\ effects[i].chat_id = dp_checked[j].moderator
                      /\ effects[i].type = dp_rule.type
    /\ \A u \in ModIds :
           (\A p \in policies : p[1] /= u) =>
               \A t \in PolicyTypes : get_notification_policy_status(u, t)

\* a moderator without a policy row, whose lookup succeeded, was sent the
\* notification for a rule of type OBSERVE
C27_Witness ==
    \E j \in DOMAIN dp_checked :
        /\ dp_checked[j].rows = {}
        /\ ~dp_checked[j].db_failed
        /\ dp_rule.type = "OBSERVE"
        /\ \A p \in policies : p[1] /= dp_checked[j].moderator
        /\ \E i \in Ops("send_message") : effects[i].chat_id = dp_checked[j].moderator

\* the moderator's turn of the loop met a failure: the policy lookup, the
\* forward or the send
TurnFailed(j) ==
    \/ dp_checked[j].db_failed
    \/ \E i \in DOMAIN effects :
           /\ effects[i].op \in {"forward_message", "send_message"}
           /\ effects[i].chat_id = dp_checked[j].moderator
           /\ ~effects[i].ok

\* C29: when the dispatch of a violation has finished, every activated
\* moderator of the chat was reached, whatever failed for the moderators
\* before: each was checked, each one to be notified had the notification
\* sent to them, and the event is acknowledged.
C29_FailureDoesNotStopLoop ==
    (dp_pc = "done" /\ dp_rule /= None) =>
        /\ {dp_checked[j].moderator : j \in DOMAIN dp_checked}
               = get_moderators_for_chat(dp_rule.chat_id)
        /\ \A j \in DOMAIN dp_checked :
               dp_checked[j].should_notify =>
                   \E i \in Ops("send_message") :
                       effects[i].chat_id = dp_checked[j].moderator
        /\ dp_acked

\* the send to the first moderator failed and the second moderator was
\* sent the notification
C29_Witness ==
    /\ dp_pc = "done"
    /\ Len(dp_checked) = 2
    /\ TurnFailed(1)
    /\ \E i \in Ops("send_message") :
           /\ effects[i].chat_id = dp_checked[1].moderator
           /\ ~effects[i].ok
    /\ \E i \in Ops("send_message") :
           /\ effects[i].chat_id = dp_checked[2].moderator
           /\ effects[i].ok
    /\ dp_acked

\* C32 (as claimed): the finished dispatch of a violation of a BAN rule has
\* issued one delete of the offending message and one restrict of its
\* author, however many moderators were notified, skipped or not reached.
C32_EnforcedExactlyOnce ==
    (dp_pc = "done" /\ dp_rule /= None /\ dp_rule.type = "BAN") =>
        /\ Cardinality(Ops("delete_message")) = 1
        /\ Cardinality(Ops("ban_chat_member")) = 1

\* C33 (as claimed): in the dispatch of a violation of a BAN rule, no
\* forward of the offending message is attempted after a delete of that
\* message has been issued.
C33_DeleteAfterLastForward ==
    \A i \in Ops("delete_message") : \A k \in Ops("forward_message") : k < i

\* C34 (as claimed): the id in the control of a notification, read by the
\* moderator-response handler as a violation id, is that of a violation of
\* the dispatched rule, in the rule's chat, by the author of the dispatched
\* message.
C34_ControlResolvesToViolation ==
    \A i \in Ops("send_message") :
        \A b \in effects[i].reply_markup :
            LET violation == get_rule_violation(b.violation_id) IN
                /\ violation /= None
                /\ violation.rule_id = dp_data.rule_id
                /\ violation.chat_id = dp_rule.chat_id
                /\ violation.violator_id = AuthorOf(dp_data.message_id)

\* the notification category a rule's violations belong to
CategoryOf(type) == IF type = "BAN" THEN "BAN" ELSE "NOTIFICATION"

\* a category is enabled unless the moderator's rows disable it
CategoryEnabled(rows, category) == ("NOT_NOTIFY_" \o category) \notin rows

\* C8: every moderator the loop reaches is notified exactly when the
\* moderator's policy for the category of the violated rule is enabled: a
\* moderator who disabled only BAN notifications is skipped for a BAN rule
\* and notified for a NOTIFY rule.
C8_FilterPerCategory ==
    \A i \in DOMAIN dp_checked :
        ~dp_checked[i].db_failed =>
            (dp_checked[i].should_notify
                <=> CategoryEnabled(dp_checked[i].rows, CategoryOf(dp_rule.type)))

\* C31: a toggle reads the status b of its moderator and category and sets
\* it to the opposite: afterwards the status read is the one set, the status
\* of the other category and of every other moderator is as it was, and a
\* second toggle of the same category gives back the status the first one
\* found.
C31_StatusSetAndRestored ==
    [][\A m \in ModIds, c \in PolicyTypes :
          (/\ toggles' = toggles + 1
           /\ last_toggle'.moderator = m
           /\ last_toggle'.policy_type = c) =>
              /\ last_toggle'.before[<<m, c>>] = get_notification_policy_status(m, c)
              /\ get_notification_policy_status(m, c)'
                     = ~get_notification_policy_status(m, c)
              /\ \A p \in ModIds \X PolicyTypes :
                     p /= <<m, c>> =>
                         get_notification_policy_status(p[1], p[2])'
                             = get_notification_policy_status(p[1], p[2])
              /\ (/\ last_toggle /= None
                  /\ last_toggle.moderator = m
                  /\ last_toggle.policy_type = c) =>
                     get_notification_policy_status(m, c)'
                         = last_toggle.before[<<m, c>>]
    ]_vars

\* the same category of one moderator toggled twice: off, then on again
C31_Witness ==
    /\ toggles = 2
    /\ last_toggle /= None
    /\ policies = {<<last_toggle.moderator, "NOTIFY_" \o last_toggle.policy_type>>}
    /\ ~last_toggle.before[<<last_toggle.moderator, last_toggle.policy_type>>]

\* ------------------------------------------------------------------------
\* Claims about the moderator response

Opposite(action) == IF action = "BAN" THEN "UNBAN" ELSE "BAN"

\* C9: after a tap on UNBAN for a violation whose current decision is BAN,
\* and after a tap on BAN for a violation whose current decision is UNBAN,
\* the violation's current decision is the tapped action and the control
\* presented next offers the opposite action.
C9_ToggleRoundTrips ==
    (/\ last_tap /= None
     /\ last_tap.found
     /\ last_tap.action \in {"BAN", "UNBAN"}
     /\ last_tap.before = [decision |-> Opposite(last_tap.action)])
    => /\ CurrentDecision(decisions, last_tap.violation_id)
              = [decision |-> last_tap.action]
       /\ last_tap.presented
              = [keyboard |-> {Button(last_tap.violation_id, Opposite(last_tap.action))}]

\* C17 (as claimed): every tap on BAN or UNBAN of an existing violation
\* records a Decision with the tapped action, issues the matching platform
\* call, and presents a control offering the opposite action, also when
\* the platform call fails.
C17_TapReissuesControl ==
    (/\ last_tap /= None
     /\ last_tap.found
     /\ last_tap.action \in {"BAN", "UNBAN"})
    => /\ \E i \in DOMAIN decisions :
              /\ decisions[i].rule_violation_id = last_tap.violation_id
              /\ decisions[i].moderator_id = last_tap.moderator
              /\ decisions[i].decision = last_tap.action
       /\ last_tap.call = (IF last_tap.action = "BAN" THEN "ban_chat_member"
                           ELSE "unban_chat_member")
       /\ last_tap.presented /= None
       /\ Button(last_tap.violation_id, Opposite(last_tap.action))
              \in control[last_tap.moderator][last_tap.violation_id]

\* C18 (as claimed): the Decision row recorded last for a violation carries
\* the action of the last tap handled for that violation.
C18_LatestRowIsLastTap ==
    \A v \in ViolationIds :
        tapped[v] /= "none" =>
            CurrentDecision(decisions, v) = [decision |-> tapped[v]]

\* C35 (as claimed): a handled action on violation V leaves every Decision
\* row of another violation as it was and adds rows for V only.
C35_OnlyRowsOfTheViolation ==
    [][\A v \in ViolationIds :
          (taps' = taps + 1 /\ last_tap'.found /\ last_tap'.violation_id = v) =>
              /\ Len(decisions') >= Len(decisions)
              /\ \A i \in DOMAIN decisions' :
                     IF i \in DOMAIN decisions
                     THEN decisions[i].rule_violation_id /= v =>
                              decisions'[i] = decisions[i]
                     ELSE decisions'[i].rule_violation_id = v
    ]_vars

\* C36 (as claimed): after an action whose platform call failed, the current
\* decision of the violation is what it was before the action.
C36_FailedCallRecordsNothing ==
    (last_tap /= None /\ last_tap.found /\ ~last_tap.call_ok) =>
        CurrentDecision(decisions, last_tap.violation_id) = last_tap.before

====
